---- MODULE Spec2Model ----
(***************************************************************************)
(* The render scheduling of the editor View (src/unnamed/part_001): the    *)
(* pending animation frame handle, the ordered view parts with their       *)
(* shouldRender flags, and the render pass (_actualRender) with its        *)
(* prepare and commit phases.  Each handler of View is one operator on a   *)
(* record of the view's fields; an action applies one handler as a whole.  *)
(* With it, from src/unnamed/part_000: the LanguagesRegistry's allocation  *)
(* of language numbers and its fast path maps (LangSpec), and the key      *)
(* IMarkerData.makeKey builds for a marker (KeySpec).                      *)
(***************************************************************************)
EXTENDS Integers, Sequences, FiniteSets, TLC

\* ------------------------------------------------------------------ bounds
NumParts == 3        \* view parts registered by the constructor
MaxQueue == 2        \* frame callbacks the host holds at one time
MaxRequests == 2     \* _scheduleRender calls counted between two flushes
MaxRegistrations == 3  \* _registerLanguage calls made on one registry

\* --------------------------------------------------------------- constants
Null == 0            \* this._renderAnimationFrame = null
ViewLinesId == 0     \* this.viewLines (not a member of viewParts)
ContentWidgets == 2  \* this.contentWidgets, the part asked onBeforeRender

Parts == 1..NumParts
NoFault == <<"none", ViewLinesId>>
\* the call that throws when it is made in a pass (at most one per pass)
Faults == {NoFault, <<"renderText", ViewLinesId>>}
            \cup ({"onBeforeRender"} \X {ContentWidgets})
            \cup ({"prepareRender", "render"} \X Parts)
\* what the environment does during one render pass: the call that throws,
\* and the scroll event that rendering the view lines may raise
PassInputs == [fault : Faults, event : BOOLEAN, dirtied : SUBSET Parts]
NoPassInput == [fault |-> NoFault, event |-> FALSE, dirtied |-> {}]

VARIABLES
  raf,            \* _renderAnimationFrame: Null or the handle of the frame
  queue,          \* host: handles scheduled and not yet run
  canceled,       \* host: handles of the queue whose dispose() was called
  viewParts,      \* this.viewParts, in registration order
  shouldRender,   \* each part's own dirty flag
  vlShouldRender, \* viewLines' own dirty flag
  inDOM,          \* dom.isInDOM(this.domNode.domNode)
  disposed,       \* dispose() has run
  sink,           \* the latest error onUnexpectedError received
  reqs,           \* _scheduleRender calls since the last flush or dispose
  forced,         \* render(_, true) ran and no pass has rendered since
  last,           \* what the latest step did (observation only)
  registry,       \* the fields of the LanguagesRegistry
  regHist,        \* the registrations made so far (observation only)
  markers         \* two marker data values and the keys made for them

vars == <<raf, queue, canceled, viewParts, shouldRender,
          vlShouldRender, inDOM, disposed, sink, reqs, forced, last,
          registry, regHist, markers>>

\* The fields of the view and of the host, and what one handler invocation
\* does: the calls it makes (log), the exception in flight (threw) and the
\* call that threw it (thrown), the passes it starts and whether one got past
\* the early returns (rendered), the parts collected for the two phases, the
\* dirty flags and the forced mark when the pass started, the parts a scroll
\* event dirtied, and the calls of the host primitive and of callbacks; the
\* scroll changes the view layout went through since the invocation began
\* (layout), the layout the viewport data was taken from (snapshot), how
\* often it was taken, and the viewport data the calls of the pass received;
\* the geometry reads made on viewLines and viewLines' dirty flag at the
\* latest of them.
St ==
  [raf |-> raf, queue |-> queue, canceled |-> canceled,
   viewParts |-> viewParts, shouldRender |-> shouldRender,
   vlShouldRender |-> vlShouldRender, inDOM |-> inDOM, disposed |-> disposed,
   sink |-> sink, reqs |-> reqs, forced |-> forced,
   log |-> <<>>, threw |-> FALSE, thrown |-> NoFault, passes |-> 0,
   rendered |-> FALSE, collected |-> <<>>, dirty0 |-> {}, forced0 |-> FALSE,
   evDirtied |-> {}, hostCalls |-> 0, cbCalls |-> 0, sinkCalls |-> 0,
   everything |-> FALSE,
   layout |-> 0, snapshot |-> 0, snapshots |-> 0, snapsUsed |-> {},
   reads |-> 0, readDirty |-> FALSE]

\* -------------------------------------------------------- collaborators
\* ViewPart / ViewEventHandler: the dirty flag each part keeps for itself.
PartShouldRender(s, p) == s.shouldRender[p]

PartOnDidRender(s, p) == [s EXCEPT !.shouldRender[p] = FALSE]

\* dom.runAtThisOrScheduleAtNextAnimationFrame: queues the callback and
\* returns its handle.
RunAtThisOrScheduleAtNextAnimationFrame(s) ==
  LET h == CHOOSE i \in 1..(MaxQueue + 1) : i \notin s.queue
  IN [s EXCEPT !.raf = h, !.queue = @ \cup {h}, !.hostCalls = @ + 1]

\* IDisposable.dispose() of a frame handle: the callback will not run.
HandleDispose(s, h) == [s EXCEPT !.canceled = @ \cup {h}]

\* onUnexpectedError: records the error, does not throw.
OnUnexpectedError(s) ==
  [s EXCEPT !.sink = s.thrown[1], !.sinkCalls = @ + 1]

\* viewLines.visibleRangesForRange2 / getLineWidth / getPositionFromDOMInfo:
\* geometry is read from the lines as they were last rendered
ReadViewLines(s) ==
  [s EXCEPT !.reads = @ + 1, !.readDirty = s.vlShouldRender]

\* variant: the rendering context reads the live layout
RenderingContextLive(s) == s.layout

\* new RenderingContext(viewLayout, viewportData, viewLines): the viewport
\* data the prepare and commit calls receive
RenderingContextOf(s) == s.snapshot

\* one call made on a part (or on viewLines) during a pass, with the
\* viewport data it is handed; it throws when it is the faulty call of this
\* pass
Call(s, op, p, in) ==
  [s EXCEPT !.log = Append(@, <<op, p>>),
            !.snapsUsed = @ \cup {IF op \in {"prepareRender", "render"}
                                     THEN RenderingContextOf(s)
                                     ELSE s.snapshot},
            !.threw = (in.fault = <<op, p>>),
            !.thrown = IF in.fault = <<op, p>> THEN <<op, p>> ELSE @]

\* ------------------------------------------------------------- the view
\* Beside the fields the code writes, the handlers keep the two history
\* marks: reqs counts the _scheduleRender calls since _renderNow last
\* started (or dispose ran), forced is set by render(_, true) and reset by
\* the first pass that gets past its early returns.
\* safeInvokeNoArg's catch clause around a callback that has run
SafeInvokeNoArg(s) ==
  IF s.threw THEN [OnUnexpectedError(s) EXCEPT !.threw = FALSE] ELSE s

\* variant: schedules a frame without looking at the pending handle
ScheduleRenderAlways(s) ==
  RunAtThisOrScheduleAtNextAnimationFrame([s EXCEPT !.reqs = @ + 1])

ScheduleRender(s) ==
  LET s1 == [s EXCEPT !.reqs = @ + 1]
  IN IF s1.raf = Null THEN RunAtThisOrScheduleAtNextAnimationFrame(s1) ELSE s1

\* variant: the callback is invoked bare, its exception leaves _renderOnce
\* before the render is requested
RenderOnceUnsafe(s, dirtied, vl, cbThrows) ==
  LET s1 == [s EXCEPT !.shouldRender =
                         [p \in Parts |-> @[p] \/ p \in dirtied],
                      !.vlShouldRender = @ \/ vl,
                      !.evDirtied = @ \cup dirtied,
                      !.cbCalls = @ + 1,
                      !.threw = cbThrows,
                      !.thrown = IF cbThrows THEN <<"callback", ViewLinesId>>
                                             ELSE @]
  IN IF s1.threw THEN s1 ELSE ScheduleRender(s1)

\* _renderOnce(callback): the callback sets the dirty flags of the handlers
\* that return true, and may throw
RenderOnce(s, dirtied, vl, cbThrows) ==
  LET s1 == [s EXCEPT !.shouldRender =
                         [p \in Parts |-> @[p] \/ p \in dirtied],
                      !.vlShouldRender = @ \/ vl,
                      !.evDirtied = @ \cup dirtied,
                      !.cbCalls = @ + 1,
                      !.threw = cbThrows,
                      !.thrown = IF cbThrows THEN <<"callback", ViewLinesId>>
                                             ELSE @]
  IN ScheduleRender(SafeInvokeNoArg(s1))

\* variant: collects the dirty parts from the last registered to the first
GetViewPartsToRenderReversed(s) ==
  LET fwd == SelectSeq(s.viewParts, LAMBDA p : PartShouldRender(s, p))
  IN [i \in 1..Len(fwd) |-> fwd[Len(fwd) + 1 - i]]

\* variant: collects every registered part, dirty or not
GetViewPartsToRenderAll(s) == s.viewParts

GetViewPartsToRender(s) ==
  SelectSeq(s.viewParts, LAMBDA p : PartShouldRender(s, p))

\* viewLines.renderText + viewLines.onDidRender; rendering may raise a
\* scroll event, which the dispatcher hands to _renderOnce
RenderViewLines(s, in) ==
  LET s1 == IF in.event
              THEN RenderOnce([s EXCEPT !.layout = @ + 1],
                              in.dirtied, TRUE, FALSE)
              ELSE s
      s2 == Call(s1, "renderText", ViewLinesId, in)
  IN IF s2.threw THEN s2
     ELSE [s2 EXCEPT !.vlShouldRender = FALSE,
                     !.log = Append(@, <<"onDidRender", ViewLinesId>>)]

\* variant: a part's prepareRender failure does not stop the loop
RECURSIVE PrepareLoopIsolated(_, _, _, _)
PrepareLoopIsolated(s, parts, i, in) ==
  IF i > Len(parts) THEN s
  ELSE PrepareLoopIsolated(Call(s, "prepareRender", parts[i], in),
                           parts, i + 1, in)

RECURSIVE PrepareLoop(_, _, _, _)
PrepareLoop(s, parts, i, in) ==
  IF s.threw \/ i > Len(parts) THEN s
  ELSE PrepareLoop(Call(s, "prepareRender", parts[i], in), parts, i + 1, in)

\* variant: the part is marked as rendered before its render() is called
RenderPartMarksFirst(s, p, in) ==
  Call([PartOnDidRender(s, p) EXCEPT !.log = Append(@, <<"onDidRender", p>>)],
       "render", p, in)

\* variant: the commit loop forgets viewPart.onDidRender()
RenderPartNoDidRender(s, p, in) == Call(s, "render", p, in)

RenderPart(s, p, in) ==
  LET s1 == Call(s, "render", p, in)
  IN IF s1.threw THEN s1
     ELSE [PartOnDidRender(s1, p) EXCEPT
             !.log = Append(@, <<"onDidRender", p>>)]

RECURSIVE RenderLoop(_, _, _, _)
RenderLoop(s, parts, i, in) ==
  IF s.threw \/ i > Len(parts) THEN s
  ELSE RenderLoop(RenderPart(s, parts[i], in), parts, i + 1, in)

\* variant: the parts collected before the view lines rendered are kept
ViewPartsCollectedOnce(s2, s3, parts0) == parts0

\* the parts the two loops go over: when the view lines rendered (s2 is the
\* view before, s3 after), the parts are collected again
ViewPartsAfterViewLines(s2, s3, parts0) ==
  IF s2.vlShouldRender /\ ~s3.threw THEN GetViewPartsToRender(s3) ELSE parts0

\* viewLayout.getLinesViewportData + new ViewportData: the viewport data of
\* the pass, taken from the layout as it is at that moment
GetLinesViewportData(s) ==
  [s EXCEPT !.snapshot = s.layout, !.snapshots = @ + 1,
            !.log = Append(@, <<"viewport", ViewLinesId>>)]

\* variant: one loop that prepares and commits each part in turn
RECURSIVE InterleavedLoop(_, _, _, _)
InterleavedLoop(s, parts, i, in) ==
  IF s.threw \/ i > Len(parts) THEN s
  ELSE LET s1 == Call(s, "prepareRender", parts[i], in)
       IN InterleavedLoop(IF s1.threw THEN s1 ELSE RenderPart(s1, parts[i], in),
                          parts, i + 1, in)

ActualRenderInterleaved(s, in) ==
  LET s0 == [s EXCEPT !.passes = @ + 1, !.forced0 = s.forced,
                      !.dirty0 = {p \in Parts : s.shouldRender[p]}]
      parts0 == GetViewPartsToRender(s0)
  IN IF ~s0.inDOM THEN s0
     ELSE IF ~s0.vlShouldRender /\ parts0 = <<>> THEN s0
     ELSE
       LET s1 == GetLinesViewportData([s0 EXCEPT !.rendered = TRUE,
                                                 !.forced = FALSE])
           s2 == IF PartShouldRender(s1, ContentWidgets)
                   THEN Call(s1, "onBeforeRender", ContentWidgets, in)
                   ELSE s1
           s3 == IF ~s2.threw /\ s2.vlShouldRender
                   THEN RenderViewLines(s2, in) ELSE s2
           parts == ViewPartsAfterViewLines(s2, s3, parts0)
           s4 == [s3 EXCEPT !.collected = parts]
       IN InterleavedLoop(s4, parts, 1, in)

\* variant: the pass does not look at whether the root node is attached
ActualRenderDetached(s, in) ==
  LET s0 == [s EXCEPT !.passes = @ + 1, !.forced0 = s.forced,
                      !.dirty0 = {p \in Parts : s.shouldRender[p]}]
      parts0 == GetViewPartsToRender(s0)
  IN IF ~s0.vlShouldRender /\ parts0 = <<>> THEN s0
     ELSE
       LET s1 == GetLinesViewportData([s0 EXCEPT !.rendered = TRUE,
                                                 !.forced = FALSE])
           s2 == IF PartShouldRender(s1, ContentWidgets)
                   THEN Call(s1, "onBeforeRender", ContentWidgets, in)
                   ELSE s1
           s3 == IF ~s2.threw /\ s2.vlShouldRender
                   THEN RenderViewLines(s2, in) ELSE s2
           parts == ViewPartsAfterViewLines(s2, s3, parts0)
           s4 == [s3 EXCEPT !.collected = parts]
       IN RenderLoop(PrepareLoop(s4, parts, 1, in), parts, 1, in)

\* _actualRender: the two early returns, the viewport snapshot, the content
\* widgets' onBeforeRender, the view lines (after which the parts are
\* collected again), then the prepare loop and the commit loop
ActualRender(s, in) ==
  LET s0 == [s EXCEPT !.passes = @ + 1, !.forced0 = s.forced,
                      !.dirty0 = {p \in Parts : s.shouldRender[p]}]
      parts0 == GetViewPartsToRender(s0)
  IN IF ~s0.inDOM THEN s0
     ELSE IF ~s0.vlShouldRender /\ parts0 = <<>> THEN s0
     ELSE
       LET s1 == GetLinesViewportData([s0 EXCEPT !.rendered = TRUE,
                                                 !.forced = FALSE])
           s2 == IF PartShouldRender(s1, ContentWidgets)
                   THEN Call(s1, "onBeforeRender", ContentWidgets, in)
                   ELSE s1
           s3 == IF ~s2.threw /\ s2.vlShouldRender
                   THEN RenderViewLines(s2, in) ELSE s2
           parts == ViewPartsAfterViewLines(s2, s3, parts0)
           s4 == [s3 EXCEPT !.collected = parts]
       IN RenderLoop(PrepareLoop(s4, parts, 1, in), parts, 1, in)

\* variant: the exception of a pass is reported and thrown again
RenderNowRethrows(s, in) ==
  LET s1 == ActualRender([s EXCEPT !.reqs = 0], in)
  IN IF s1.threw THEN OnUnexpectedError(s1) ELSE s1

\* _renderNow: safeInvokeNoArg(() => this._actualRender())
RenderNow(s, in) == SafeInvokeNoArg(ActualRender([s EXCEPT !.reqs = 0], in))

\* variant: the flush also cancels and clears the pending frame
FlushAndClearPending(s, in) ==
  LET s1 == IF s.raf # Null
              THEN [HandleDispose(s, s.raf) EXCEPT !.raf = Null] ELSE s
  IN RenderNow(s1, in)

FlushAccumulatedAndRenderNow(s, in) == RenderNow(s, in)

\* variant: the query reads the geometry first and flushes afterwards
GetOffsetForColumnReadsFirst(s, in) ==
  FlushAccumulatedAndRenderNow(ReadViewLines(s), in)

\* getOffsetForColumn, and in the same shape getPositionFromDOMInfo,
\* visibleRangeForPosition2, getLineWidth and
\* visibleRangeForPositionRelativeToEditor: a flush, then the read
GetOffsetForColumn(s, in) ==
  ReadViewLines(FlushAccumulatedAndRenderNow(s, in))

\* variant: the callback clears the handle after the pass, not before it
OnRenderScheduledClearsAfter(s, in) ==
  [FlushAccumulatedAndRenderNow(s, in) EXCEPT !.raf = Null]

\* variant: the callback forgets to clear the handle of the frame it ran
OnRenderScheduledKeepsHandle(s, in) == FlushAccumulatedAndRenderNow(s, in)

OnRenderScheduled(s, in) ==
  FlushAccumulatedAndRenderNow([s EXCEPT !.raf = Null], in)

\* variant: only the view lines are forced, the loop over the parts is lost
ForceViewLinesOnly(s) ==
  [s EXCEPT !.vlShouldRender = TRUE, !.forced = TRUE, !.everything = TRUE]

ForceAll(s) ==
  [s EXCEPT !.vlShouldRender = TRUE, !.forced = TRUE, !.everything = TRUE,
            !.shouldRender =
               [p \in Parts |->
                  @[p] \/ \E i \in 1..Len(s.viewParts) : s.viewParts[i] = p]]

Render(s, now, everything, in) ==
  LET s1 == IF everything THEN ForceAll(s) ELSE s
  IN IF now THEN FlushAccumulatedAndRenderNow(s1, in) ELSE ScheduleRender(s1)

\* variant: dispose clears the handle field without disposing the handle
DisposeForgetsFrame(s) ==
  [s EXCEPT !.raf = Null, !.viewParts = <<>>, !.disposed = TRUE, !.reqs = 0]

\* variant: dispose leaves the destroyed parts in the collection
DisposeKeepsParts(s) ==
  LET s1 == IF s.raf # Null
              THEN [HandleDispose(s, s.raf) EXCEPT !.raf = Null] ELSE s
  IN [s1 EXCEPT !.disposed = TRUE, !.reqs = 0]

Dispose(s) ==
  LET s1 == IF s.raf # Null
              THEN [HandleDispose(s, s.raf) EXCEPT !.raf = Null] ELSE s
  IN [s1 EXCEPT !.viewParts = <<>>, !.disposed = TRUE, !.reqs = 0]

\* host: the animation frame runs the item h of the queue
RunFrame(s, h, in) ==
  LET s1 == [s EXCEPT !.queue = @ \ {h}, !.canceled = @ \ {h}]
  IN IF h \in s.canceled THEN s1 ELSE OnRenderScheduled(s1, in)

\* ------------------------------------------------ the languages registry
\* LanguagesRegistry (src/unnamed/part_000): the numeric ids handed out to
\* language ids, the resolved languages and the fast path maps.  What
\* _mergeLanguage hands to the mime module (extensions, filenames, first
\* line patterns) and the configuration files are left out: they live
\* outside the registry's own fields.
LangIds == {"a", "b", "c"}

NullValue == "<null>"    \* null, where the code compares with it

Falsy(x) == x \in {NullValue, ""}

\* a property of a descriptor that may hold an array
NoArray == [isArray |-> FALSE, items |-> <<>>]

Arr(items) == [isArray |-> TRUE, items |-> items]

\* ILanguageExtensionPoint: the descriptors handed to _registerLanguages
Descriptors ==
  [id : LangIds,
   mimetypes : {NoArray, Arr(<<"text/m">>)},
   aliases : {NoArray, Arr(<<>>), Arr(<<"A">>), Arr(<<"">>)}]

\* a descriptor that has only its id
Bare(id) == [id |-> id, mimetypes |-> NoArray, aliases |-> NoArray]

\* the arrays of descriptors of one _registerLanguages call: none, one, or
\* one followed by a bare one
Batches ==
  {<<>>} \cup {<<d>> : d \in Descriptors}
         \cup {<<d, Bare(id)>> : d \in Descriptors, id \in LangIds}

\* `text/x-${langId}`
DefaultMime(langId) == "text/x-" \o langId

\* String.prototype.toLowerCase on the names of the model
ToLowerCase(x) == IF x = "A" THEN "a" ELSE x

\* new LanguagesRegistry(false)
NewRegistry ==
  [nextLanguageId |-> 1, languages |-> <<>>, languageIds |-> <<>>,
   mimeTypesMap |-> <<>>, nameMap |-> <<>>, lowercaseNameMap |-> <<>>]

\* variant: without aliases the language id replaces a name already set
MergeLanguageOverwritesName(resolved, lang) ==
  LET given == lang.mimetypes.isArray /\ Len(lang.mimetypes.items) > 0
      primaryMime == IF given THEN lang.mimetypes.items[1] ELSE NullValue
      mimes1 == IF given THEN resolved.mimetypes \o lang.mimetypes.items
                         ELSE resolved.mimetypes
      mimes2 == IF Falsy(primaryMime)
                  THEN Append(mimes1, DefaultMime(lang.id)) ELSE mimes1
      hasAliases == lang.aliases.isArray
      langAliases == IF Len(lang.aliases.items) = 0
                       THEN <<NullValue>> ELSE lang.aliases.items
      aliases1 == Append(resolved.aliases, lang.id)
      aliases2 == IF hasAliases
                    THEN aliases1 \o SelectSeq(langAliases,
                                               LAMBDA x : ~Falsy(x))
                    ELSE aliases1
      bestName == IF hasAliases /\ ~Falsy(langAliases[1])
                    THEN langAliases[1] ELSE lang.id
      name == IF hasAliases /\ langAliases[1] = NullValue
                THEN resolved.name
              ELSE bestName
  IN [resolved EXCEPT !.mimetypes = mimes2, !.aliases = aliases2,
                      !.name = name]

\* _mergeLanguage: the mimetypes, the aliases and the name
MergeLanguage(resolved, lang) ==
  LET given == lang.mimetypes.isArray /\ Len(lang.mimetypes.items) > 0
      primaryMime == IF given THEN lang.mimetypes.items[1] ELSE NullValue
      mimes1 == IF given THEN resolved.mimetypes \o lang.mimetypes.items
                         ELSE resolved.mimetypes
      mimes2 == IF Falsy(primaryMime)
                  THEN Append(mimes1, DefaultMime(lang.id)) ELSE mimes1
      hasAliases == lang.aliases.isArray
      langAliases == IF Len(lang.aliases.items) = 0
                       THEN <<NullValue>> ELSE lang.aliases.items
      aliases1 == Append(resolved.aliases, lang.id)
      aliases2 == IF hasAliases
                    THEN aliases1 \o SelectSeq(langAliases,
                                               LAMBDA x : ~Falsy(x))
                    ELSE aliases1
      bestName == IF hasAliases /\ ~Falsy(langAliases[1])
                    THEN langAliases[1] ELSE lang.id
      name == IF hasAliases /\ langAliases[1] = NullValue
                THEN resolved.name
              ELSE IF hasAliases \/ Falsy(resolved.name) THEN bestName
              ELSE resolved.name
  IN [resolved EXCEPT !.mimetypes = mimes2, !.aliases = aliases2,
                      !.name = name]

\* the resolved language created for an id seen for the first time
NewLanguage(langId, languageId) ==
  [identifier |-> [language |-> langId, id |-> languageId],
   name |-> NullValue, mimetypes |-> <<>>, aliases |-> <<>>]

\* variant: every registration allocates a number, known id or not
RegisterLanguageAlways(r, lang) ==
  LET languageId == r.nextLanguageId
  IN [r EXCEPT !.nextLanguageId = @ + 1,
               !.languageIds = (languageId :> lang.id) @@ @,
               !.languages =
                  (lang.id :> MergeLanguage(NewLanguage(lang.id, languageId),
                                            lang)) @@ @]

\* _registerLanguage
RegisterLanguage(r, lang) ==
  IF lang.id \in DOMAIN r.languages
    THEN [r EXCEPT !.languages[lang.id] = MergeLanguage(@, lang)]
  ELSE LET languageId == r.nextLanguageId
       IN [r EXCEPT !.nextLanguageId = @ + 1,
                    !.languageIds = (languageId :> lang.id) @@ @,
                    !.languages =
                       (lang.id :> MergeLanguage(
                                     NewLanguage(lang.id, languageId), lang))
                         @@ @]

RECURSIVE RegisterEach(_, _, _)
RegisterEach(r, desc, i) ==
  IF i > Len(desc) THEN r
  ELSE RegisterEach(RegisterLanguage(r, desc[i]), desc, i + 1)

\* Object.keys(this._languages): the ids in the order they were added
LanguageKeys(r) ==
  LET idx == {i \in DOMAIN r.languageIds :
                /\ r.languageIds[i] \in DOMAIN r.languages
                /\ r.languages[r.languageIds[i]].identifier.id = i}
      Nth[n \in 0..Cardinality(idx)] ==
        IF n = 0 THEN 0
        ELSE CHOOSE i \in idx : i > Nth[n - 1] /\
                                \A j \in idx : j > Nth[n - 1] => i <= j
  IN [n \in 1..Cardinality(idx) |-> r.languageIds[Nth[n]]]

NameKeys(language) ==
  IF Falsy(language.name) THEN {} ELSE {language.name}

AliasKeys(language) ==
  {ToLowerCase(language.aliases[i]) : i \in 1..Len(language.aliases)}

MimeKeys(language) ==
  {language.mimetypes[i] : i \in 1..Len(language.mimetypes)}

\* the keys a language contributes to the map of the given kind
KeysOf(kind, language) ==
  IF kind = "name" THEN NameKeys(language)
  ELSE IF kind = "alias" THEN AliasKeys(language)
  ELSE MimeKeys(language)

\* a fast path map: each key of the languages, in their order, is set to
\* the identifier of the language, a later language overwriting an earlier
FastPathMap(r, kind) ==
  LET keys == LanguageKeys(r)
      all == UNION {KeysOf(kind, r.languages[keys[i]]) : i \in 1..Len(keys)}
      LastWith(k) ==
        CHOOSE i \in 1..Len(keys) :
          /\ k \in KeysOf(kind, r.languages[keys[i]])
          /\ \A j \in 1..Len(keys) :
               k \in KeysOf(kind, r.languages[keys[j]]) => j <= i
  IN [k \in all |-> r.languages[keys[LastWith(k)]].identifier]

\* variant: the descriptors are registered, the fast path maps are left
\* as they were
RegisterLanguagesNoRebuild(r, desc) ==
  IF Len(desc) = 0 THEN r ELSE RegisterEach(r, desc, 1)

\* _registerLanguages: nothing for an empty array; otherwise each
\* descriptor is registered and the fast path maps are rebuilt
RegisterLanguages(r, desc) ==
  IF Len(desc) = 0 THEN r
  ELSE LET r1 == RegisterEach(r, desc, 1)
       IN [r1 EXCEPT !.mimeTypesMap = FastPathMap(r1, "mime"),
                     !.nameMap = FastPathMap(r1, "name"),
                     !.lowercaseNameMap = FastPathMap(r1, "alias")]

\* isRegisteredMode: a known mime type, or a known mode id
IsRegisteredMode(r, mimetypeOrModeId) ==
  \/ mimetypeOrModeId \in DOMAIN r.mimeTypesMap
  \/ mimetypeOrModeId \in DOMAIN r.languages

\* the history of the registrations: the ids in the order they were first
\* registered, the _registerLanguage calls made, the latest batch and the
\* numbers and names the ids had before it
RECURSIVE FirstSeen(_, _, _)
FirstSeen(seen, desc, i) ==
  IF i > Len(desc) THEN seen
  ELSE FirstSeen(IF \E j \in 1..Len(seen) : seen[j] = desc[i].id
                   THEN seen ELSE Append(seen, desc[i].id),
                 desc, i + 1)

NumbersOf(r) == [id \in DOMAIN r.languages |-> r.languages[id].identifier.id]

NamesOf(r) == [id \in DOMAIN r.languages |-> r.languages[id].name]

NoHistory == [firstSeen |-> <<>>, calls |-> 0, desc |-> <<>>,
              numbersBefore |-> <<>>, namesBefore |-> <<>>]

\* ---------------------------------------------------------- marker keys
\* IMarkerData.makeKey (src/unnamed/part_000).  A string is the sequence of
\* its characters; Sep stands for the separator character the code joins
\* with.
MaxLen == 1              \* characters of a marker's source, code, message

Sep == "|"

Chars == {"a", Sep}

Strings == UNION {[1..n -> Chars] : n \in 0..MaxLen}

\* an optional string property: absent, or present with a value
Absent == [present |-> FALSE, value |-> <<>>]

Given(str) == [present |-> TRUE, value |-> str]

Hint == 1
Info == 2
Warning == 4
Error == 8

\* startLineNumber, startColumn, endLineNumber, endColumn
Ranges == {<<1, 12, 1, 12>>, <<11, 2, 11, 2>>}

MarkerInputs ==
  [source : {Absent} \cup {Given(x) : x \in Strings},
   code : {Absent} \cup {Given(x) : x \in Strings},
   severity : {Hint, Info, Warning, Error},
   message : Strings,
   range : Ranges]

\* _displayStrings[a] || ''
SeverityToString(a) ==
  IF a = Error THEN <<"E", "r", "r", "o", "r">>
  ELSE IF a = Warning THEN <<"W", "a", "r", "n", "i", "n", "g">>
  ELSE IF a = Info THEN <<"I", "n", "f", "o">>
  ELSE <<>>

\* Number.prototype.toString of a positive integer
RECURSIVE NumberToString(_)
NumberToString(n) ==
  LET digit == <<"0", "1", "2", "3", "4", "5", "6", "7", "8", "9">>
  IN IF n < 10 THEN <<digit[n + 1]>>
     ELSE Append(NumberToString(n \div 10), digit[(n % 10) + 1])

\* String.prototype.replace(pattern, replacement) with a one character
\* string pattern: the first occurrence is replaced
Replace(str, pattern, replacement) ==
  IF \E i \in 1..Len(str) : str[i] = pattern
    THEN LET i == CHOOSE k \in 1..Len(str) :
                    str[k] = pattern /\ \A j \in 1..(k - 1) : str[j] # pattern
         IN SubSeq(str, 1, i - 1) \o replacement \o SubSeq(str, i + 1, Len(str))
    ELSE str

\* the string literal '\¦': the backslash before a character that starts no
\* escape sequence is dropped, the literal is the separator itself
EscapedSep == <<Sep>>

\* Array.prototype.join(separator)
RECURSIVE Join(_, _)
Join(parts, separator) ==
  IF Len(parts) = 0 THEN <<>>
  ELSE IF Len(parts) = 1 THEN parts[1]
  ELSE parts[1] \o <<separator>> \o Join(Tail(parts), separator)

\* the part of the key for an optional string property
StringPart(field) ==
  IF field.present /\ field.value # <<>>
    THEN Replace(field.value, Sep, EscapedSep) ELSE <<>>

MakeKey(markerData) ==
  Join(<<<<>>,
         StringPart(markerData.source),
         StringPart(markerData.code),
         SeverityToString(markerData.severity),
         StringPart(Given(markerData.message)),
         NumberToString(markerData.range[1]),
         NumberToString(markerData.range[2]),
         NumberToString(markerData.range[3]),
         NumberToString(markerData.range[4]),
         <<>>>>, Sep)

NoMarkers ==
  LET m == [source |-> Absent, code |-> Absent, severity |-> Error,
            message |-> <<>>, range |-> <<1, 1, 1, 1>>]
  IN [a |-> m, b |-> m, keyA |-> <<>>, keyB |-> <<>>, done |-> FALSE]

\* ---------------------------------------------------------------- steps
\* The inputs that make a difference to a pass started in s: a scroll event
\* needs the view lines to render, it dirties parts that were clean, and
\* the call that throws is one the pass makes.
Registered(s) == {s.viewParts[i] : i \in 1..Len(s.viewParts)}

Dirty(s) == {p \in Parts : s.shouldRender[p]}

FaultsFor(s, dirtied) ==
  {NoFault}
    \cup (IF s.vlShouldRender THEN {<<"renderText", ViewLinesId>>} ELSE {})
    \cup (IF s.shouldRender[ContentWidgets]
            THEN {<<"onBeforeRender", ContentWidgets>>} ELSE {})
    \cup ({"prepareRender", "render"}
            \X (Registered(s) \cap (Dirty(s) \cup dirtied)))

PassInputsFor(s) ==
  IF ~s.inDOM \/ (~s.vlShouldRender /\ Registered(s) \cap Dirty(s) = {})
    THEN {NoPassInput}
  ELSE LET events == {<<FALSE, {}>>} \cup
                       (IF s.vlShouldRender
                          THEN {TRUE} \X SUBSET (Registered(s) \ Dirty(s))
                          ELSE {})
       IN UNION {{[fault |-> f, event |-> e[1], dirtied |-> e[2]] :
                    f \in FaultsFor(s, e[2])} : e \in events}

Observe(op, s, t) ==
  [op |-> op, log |-> t.log, passes |-> t.passes, rendered |-> t.rendered,
   collected |-> t.collected, hostCalls |-> t.hostCalls,
   sinkCalls |-> t.sinkCalls, escaped |-> t.threw,
   thrown |-> t.thrown, dirty0 |-> t.dirty0, forced0 |-> t.forced0,
   evDirtied |-> t.evDirtied, cbCalls |-> t.cbCalls,
   everything |-> t.everything,
   layout |-> t.layout, snapshot |-> t.snapshot,
   snapshots |-> t.snapshots, snapsUsed |-> t.snapsUsed,
   reads |-> t.reads, readDirty |-> t.readDirty,
   vlBefore |-> s.vlShouldRender,
   rafBefore |-> s.raf, queueBefore |-> s.queue \ s.canceled,
   reqsBefore |-> s.reqs, forcedBefore |-> s.forced,
   dirtyBefore |-> {p \in Parts : s.shouldRender[p]},
   partsBefore |-> s.viewParts, wasInDOM |-> s.inDOM]

Apply(op, s, t) ==
  /\ Cardinality(t.queue) <= MaxQueue
  /\ t.reqs <= MaxRequests
  /\ raf' = t.raf
  /\ queue' = t.queue
  /\ canceled' = t.canceled
  /\ viewParts' = t.viewParts
  /\ shouldRender' = t.shouldRender
  /\ vlShouldRender' = t.vlShouldRender
  /\ inDOM' = t.inDOM
  /\ disposed' = t.disposed
  /\ sink' = t.sink
  /\ reqs' = t.reqs
  /\ forced' = t.forced
  /\ last' = Observe(op, s, t)
  /\ UNCHANGED <<registry, regHist, markers>>

\* the view after its constructor
InitView ==
  /\ raf = Null
  /\ queue = {}
  /\ canceled = {}
  /\ viewParts = [i \in 1..NumParts |-> i]
  /\ shouldRender = [p \in Parts |-> TRUE]
  /\ vlShouldRender = TRUE
  /\ inDOM = FALSE
  /\ disposed = FALSE
  /\ sink = NoFault[1]
  /\ reqs = 0
  /\ forced = FALSE
  /\ last = [op |-> "init", log |-> <<>>, passes |-> 0, rendered |-> FALSE,
             collected |-> <<>>, hostCalls |-> 0, sinkCalls |-> 0,
             escaped |-> FALSE, thrown |-> NoFault, dirty0 |-> {},
             forced0 |-> FALSE, evDirtied |-> {}, cbCalls |-> 0,
             everything |-> FALSE,
             layout |-> 0, snapshot |-> 0, snapshots |-> 0,
             snapsUsed |-> {},
             reads |-> 0, readDirty |-> FALSE, vlBefore |-> TRUE,
             rafBefore |-> Null, queueBefore |-> {},
             reqsBefore |-> 0, forcedBefore |-> FALSE, dirtyBefore |-> Parts,
             partsBefore |-> [i \in 1..NumParts |-> i], wasInDOM |-> FALSE]

Init ==
  /\ InitView
  /\ registry = NewRegistry
  /\ regHist = NoHistory
  /\ markers = NoMarkers

\* a view event reaches the parts through the dispatcher and _renderOnce
DoRenderOnce ==
  \E dirtied \in SUBSET (Registered(St) \ Dirty(St)),
     vl \in BOOLEAN, cbThrows \in BOOLEAN :
    /\ vl => ~vlShouldRender /\ ~disposed
    /\ \E t \in {RenderOnce(St, dirtied, vl, cbThrows)} :
         Apply("renderOnce", St, t)

\* addContentWidget, removeOverlayWidget, ...: a bare _scheduleRender
DoScheduleRender == \E t \in {ScheduleRender(St)} : Apply("schedule", St, t)

DoRender ==
  \E now \in BOOLEAN, everything \in BOOLEAN :
    \E in \in IF now THEN PassInputsFor(IF everything THEN ForceAll(St)
                                                        ELSE St)
                     ELSE {NoPassInput} :
      \E t \in {Render(St, now, everything, in)} :
        Apply(IF now THEN "flush" ELSE "schedule", St, t)

\* a geometry query of the pointer handler, of the text area handler or of
\* the editor
DoFlush ==
  \E in \in PassInputsFor(St) :
    \E t \in {GetOffsetForColumn(St, in)} : Apply("flush", St, t)

DoFrame ==
  \E h \in queue :
    \E in \in IF h \in canceled THEN {NoPassInput} ELSE PassInputsFor(St) :
      \E t \in {RunFrame(St, h, in)} :
        Apply(IF h \in canceled THEN "frameSkipped" ELSE "frame", St, t)

\* the owner of the view disposes it once
DoDispose == ~disposed /\ \E t \in {Dispose(St)} : Apply("dispose", St, t)

\* the embedder attaches the view's node to the document or removes it
SetInDOM ==
  \E b \in BOOLEAN :
    /\ b # inDOM
    /\ Apply("dom", St, [St EXCEPT !.inDOM = b])

Next ==
  \/ DoRenderOnce
  \/ DoScheduleRender
  \/ DoRender
  \/ DoFlush
  \/ DoFrame
  \/ DoDispose
  \/ SetInDOM

Spec == Init /\ [][Next]_vars

\* ------------------------------------------- the registry's specification
viewVars == <<raf, queue, canceled, viewParts, shouldRender,
              vlShouldRender, inDOM, disposed, sink, reqs, forced, last>>

\* ModesRegistry hands an array of descriptors to _registerLanguages
DoRegisterLanguages ==
  \E desc \in Batches :
    /\ regHist.calls + Len(desc) <= MaxRegistrations
    /\ registry' = RegisterLanguages(registry, desc)
    /\ regHist' = [firstSeen |-> FirstSeen(regHist.firstSeen, desc, 1),
                   calls |-> regHist.calls + Len(desc),
                   desc |-> desc,
                   numbersBefore |-> NumbersOf(registry),
                   namesBefore |-> NamesOf(registry)]
    /\ UNCHANGED <<viewVars, markers>>

LangNext == DoRegisterLanguages

LangSpec == Init /\ [][LangNext]_vars

\* ------------------------------------------ the marker keys' specification
KeyInit ==
  /\ InitView
  /\ registry = NewRegistry
  /\ regHist = NoHistory
  /\ markers \in {[a |-> x, b |-> y, keyA |-> <<>>, keyB |-> <<>>,
                    done |-> FALSE] : x, y \in MarkerInputs}

\* makeKey is applied to the two values
DoMakeKey ==
  /\ ~markers.done
  /\ markers' = [markers EXCEPT !.keyA = MakeKey(markers.a),
                                !.keyB = MakeKey(markers.b),
                                !.done = TRUE]
  /\ UNCHANGED <<viewVars, registry, regHist>>

KeyNext == DoMakeKey

KeySpec == KeyInit /\ [][KeyNext]_vars

\* ------------------------------------------------------- reading a step
Live == queue \ canceled

Range(f) == {f[i] : i \in DOMAIN f}

\* the parts on which the latest step made the call op, in call order
PartsOf(op) ==
  LET sel == SelectSeq(last.log, LAMBDA c : c[1] = op)
  IN [i \in 1..Len(sel) |-> sel[i][2]]

IsPrefix(a, b) == Len(a) <= Len(b) /\ \A i \in 1..Len(a) : a[i] = b[i]

\* position of the call <<op, p>> in the log of the latest step, 0 if absent
PosOf(op, p) ==
  IF \E i \in 1..Len(last.log) : last.log[i] = <<op, p>>
    THEN CHOOSE i \in 1..Len(last.log) : last.log[i] = <<op, p>>
    ELSE 0

\* the latest step ran a pass that got past the early returns / to its end
Rendered == last.passes > 0 /\ last.rendered

Complete == Rendered /\ last.thrown = NoFault

\* the registered parts that were dirty when the pass collected its parts
DirtyAtCollection ==
  (last.dirty0 \cup last.evDirtied) \cap Range(last.partsBefore)

\* ----------------------------------------------------------------- C1
\* C1: at most one frame callback is outstanding for the view, and it is
\* the one _renderAnimationFrame holds; a _scheduleRender made while a frame
\* is pending makes no call of the host primitive and leaves the handle and
\* the outstanding callbacks as they were.
C1_SinglePendingFrame ==
  /\ Cardinality(Live) <= 1
  /\ Live = IF raf = Null THEN {} ELSE {raf}
  /\ (last.op \in {"schedule", "renderOnce"} /\ last.rafBefore # Null) =>
       /\ last.hostCalls = 0
       /\ raf = last.rafBefore
       /\ Live = last.queueBefore

C1_Witness ==
  /\ last.op = "schedule"
  /\ last.rafBefore # Null
  /\ reqs >= 2
  /\ Live = {raf}

\* ----------------------------------------------------------------- C2
\* C2: N >= 1 render requests made since the last flush are served by one
\* callback: while they wait exactly one callback is outstanding, and when
\* the host fires it the callback runs _actualRender exactly once and no
\* callback scheduled for those requests is left (one outstanding afterwards
\* was scheduled by a request made during the pass).
C2_RequestsCoalesce ==
  /\ reqs >= 1 => Live = {raf} /\ raf # Null
  /\ last.op = "frame" =>
       /\ last.queueBefore = {last.rafBefore}
       /\ last.passes = 1
       /\ \/ Live = {} /\ last.hostCalls = 0
          \/ Cardinality(Live) = 1 /\ last.hostCalls = 1 /\ reqs = 1

C2_Witness ==
  /\ last.op = "frame"
  /\ last.reqsBefore >= 2
  /\ last.passes = 1
  /\ Live = {}

\* ----------------------------------------------------------------- C3
\* C3 as stated: after a synchronous flush no frame is pending and no
\* callback scheduled before it is left to fire.
C3_FlushClearsPending ==
  last.op = "flush" => raf = Null /\ Live = {}

\* C3, amended: a synchronous flush runs _actualRender once, at once, whether
\* or not a frame is pending, and does not touch the pending state: a frame
\* pending before it is still pending after it, same handle, its callback
\* still outstanding; with no frame pending before, one is pending after
\* only if a scroll event raised by the pass requested it.
C3_FlushKeepsPending ==
  last.op = "flush" =>
    /\ last.passes = 1
    /\ last.rafBefore # Null =>
         raf = last.rafBefore /\ Live = last.queueBefore /\ last.hostCalls = 0
    /\ last.rafBefore = Null =>
         \/ raf = Null /\ Live = {} /\ last.hostCalls = 0
         \/ raf # Null /\ Live = {raf} /\ last.hostCalls = 1 /\ last.cbCalls = 1

C3_Witness ==
  /\ last.op = "flush"
  /\ Complete
  /\ last.rafBefore # Null
  /\ raf = last.rafBefore
  /\ Live = {raf}

\* ----------------------------------------------------------------- C4
\* C4: a commit (render) that throws in a flush gives the error sink exactly
\* one call in that flush and the exception does not leave the handler; the
\* scheduler stays usable: whatever errors came before, every request
\* leaves a frame pending and outstanding, and every callback the host fires
\* runs one pass, which ends with every collected part prepared and
\* committed unless a call of that pass throws again.
C4_CommitErrorContained ==
  /\ ~last.escaped
  /\ (last.passes > 0 /\ last.thrown[1] = "render") =>
       last.sinkCalls = 1 /\ sink = "render"
  /\ last.op \in {"schedule", "renderOnce"} => raf # Null /\ Live = {raf}
  /\ last.op = "frame" =>
       /\ last.passes = 1
       /\ (Rendered /\ last.thrown = NoFault) =>
            /\ last.sinkCalls = 0
            /\ PartsOf("prepareRender") = last.collected
            /\ PartsOf("render") = last.collected

\* a frame requested after a failed commit has run its pass to the end
C4_Witness ==
  /\ sink = "render"
  /\ last.op = "frame"
  /\ Complete
  /\ last.reqsBefore >= 1
  /\ last.sinkCalls = 0
  /\ Len(last.collected) >= 1
  /\ PartsOf("render") = last.collected

\* ----------------------------------------------------------------- C5
\* C5: the call that throws in a pass is the last call of the pass and the
\* error is reported once: after a throwing prepareRender no later part is
\* prepared and no part is committed; after a throwing render no later part
\* is committed.
C5_ThrowAbortsPass ==
  (last.passes > 0 /\ last.thrown # NoFault) =>
    /\ last.log[Len(last.log)] = last.thrown
    /\ last.sinkCalls = 1
    /\ last.thrown[1] = "prepareRender" =>
         /\ PartsOf("render") = <<>>
         /\ IsPrefix(PartsOf("prepareRender"), last.collected)
         /\ PartsOf("prepareRender")[Len(PartsOf("prepareRender"))]
              = last.thrown[2]
    /\ last.thrown[1] = "render" =>
         /\ IsPrefix(PartsOf("render"), last.collected)
         /\ PartsOf("render")[Len(PartsOf("render"))] = last.thrown[2]
    /\ last.thrown[1] \in {"onBeforeRender", "renderText"} =>
         PartsOf("prepareRender") = <<>> /\ PartsOf("render") = <<>>

\* the first of several dirty parts throws in prepareRender
C5_Witness ==
  /\ last.passes > 0
  /\ last.thrown[1] = "prepareRender"
  /\ Len(last.collected) >= 2
  /\ last.thrown[2] = last.collected[1]
  /\ PartsOf("prepareRender") = <<last.collected[1]>>
  /\ last.sinkCalls = 1

\* ----------------------------------------------------------------- C6
\* C6: in every pass the parts collected for the two phases are the dirty
\* registered parts in registration order, and the prepareRender calls and
\* the render calls are made in that order; so the call order is fixed by
\* the dirty set alone.
C6_RegistrationOrder ==
  last.passes > 0 =>
    /\ last.collected =
         SelectSeq(last.partsBefore, LAMBDA p : p \in Range(last.collected))
    /\ IsPrefix(PartsOf("prepareRender"), last.collected)
    /\ IsPrefix(PartsOf("render"), last.collected)
    /\ Complete =>
         /\ PartsOf("prepareRender") =
              SelectSeq(last.partsBefore, LAMBDA p : p \in DirtyAtCollection)
         /\ PartsOf("render") = PartsOf("prepareRender")

C6_Witness ==
  /\ Complete
  /\ Len(last.collected) >= 2
  /\ Len(last.collected) < Len(last.partsBefore)
  /\ PartsOf("render") = last.collected

\* ----------------------------------------------------------------- C7
\* C7: in a pass no render call precedes a prepareRender call, and when a
\* render call is made every collected part has been prepared.
C7_PrepareBeforeCommit ==
  last.passes > 0 =>
    /\ \A i, j \in 1..Len(last.log) :
         (last.log[i][1] = "render" /\ last.log[j][1] = "prepareRender")
           => j < i
    /\ PartsOf("render") # <<>> =>
         PartsOf("prepareRender") = last.collected

C7_Witness ==
  /\ last.passes > 0
  /\ Len(last.collected) >= 2
  /\ Len(PartsOf("render")) >= 2
  /\ PosOf("prepareRender", last.collected[2]) < PosOf("render", last.collected[1])

\* ----------------------------------------------------------------- C8
\* C8: a pass calls prepareRender, render and onDidRender only on registered
\* parts whose shouldRender was true when the pass collected its parts; a
\* part that is not dirty gets no call; a pass that runs to its end prepares
\* and commits exactly those parts.
C8_OnlyDirtyParts ==
  last.passes > 0 =>
    /\ Range(last.collected) \subseteq DirtyAtCollection
    /\ Range(PartsOf("prepareRender")) \subseteq DirtyAtCollection
    /\ Range(PartsOf("render")) \subseteq DirtyAtCollection
    /\ Range(PartsOf("onDidRender")) \subseteq DirtyAtCollection \cup {ViewLinesId}
    /\ Complete =>
         /\ Range(PartsOf("prepareRender")) = DirtyAtCollection
         /\ Range(PartsOf("render")) = DirtyAtCollection

\* parts A, B, C registered, only B dirty: the commits are [B]
C8_Witness ==
  /\ Complete
  /\ Len(last.partsBefore) >= 3
  /\ last.dirty0 = {last.partsBefore[2]}
  /\ last.evDirtied = {}
  /\ PartsOf("prepareRender") = <<last.partsBefore[2]>>
  /\ PartsOf("render") = <<last.partsBefore[2]>>

\* ----------------------------------------------------------------- C9
\* C9: once render(_, true) has forced the view, every registered part and
\* the view lines stay dirty until a pass renders, and the first pass that
\* then runs to its end renders the view lines and prepares and commits
\* every registered part.
C9_ForcedRendersAll ==
  /\ forced =>
       vlShouldRender /\ \A p \in Range(viewParts) : shouldRender[p]
  /\ (Complete /\ last.forced0) =>
       /\ PartsOf("renderText") = <<ViewLinesId>>
       /\ PartsOf("prepareRender") = last.partsBefore
       /\ PartsOf("render") = last.partsBefore

\* render(true, true) on a view none of whose parts was dirty
C9_Witness ==
  /\ Complete
  /\ last.op = "flush"
  /\ last.everything
  /\ last.dirtyBefore = {}
  /\ Len(last.partsBefore) >= 3
  /\ PartsOf("render") = last.partsBefore

\* ---------------------------------------------------------------- C10
\* C10: after a pass that runs to its end every part it prepared and
\* committed reports shouldRender = false, and the pass got there by calling
\* the part's own onDidRender right after the part's render.
C10_CommittedPartsClean ==
  Complete =>
    \A p \in Range(PartsOf("render")) :
      /\ p \in Range(PartsOf("prepareRender"))
      /\ ~shouldRender[p]
      /\ PosOf("onDidRender", p) = PosOf("render", p) + 1

C10_Witness ==
  /\ Complete
  /\ Len(PartsOf("render")) >= 2
  /\ \A p \in Range(PartsOf("render")) : ~shouldRender[p]

\* ----------------------------------------------------------------- C11
\* the phases of a pass: taking the viewport data and rendering the view
\* lines, the prepare loop, the commit loop
PhaseNames == <<"Snapshotting", "Preparing", "Committing">>

\* the phase (index in PhaseNames) the call c of a pass belongs to
PhaseOf(c) ==
  IF c[1] = "prepareRender" THEN 2
  ELSE IF c[1] = "render" \/ (c[1] = "onDidRender" /\ c[2] # ViewLinesId)
    THEN 3
  ELSE 1

PhasesSeen == {PhaseOf(last.log[i]) : i \in 1..Len(last.log)}

PhasesInOrder ==
  \A i, j \in 1..Len(last.log) :
    i < j => PhaseOf(last.log[i]) <= PhaseOf(last.log[j])

\* C11 as stated: every pass is started by the scheduled callback of a
\* pending frame, goes through Snapshotting, Preparing and Committing, all
\* three and in that order, and leaves no frame pending.
C11_FullCycleOnly ==
  last.passes > 0 =>
    /\ last.op = "frame"
    /\ last.rafBefore # Null
    /\ PhasesSeen = DOMAIN PhaseNames
    /\ PhasesInOrder
    /\ raf = Null

\* C11, amended: the calls of a pass are in the order Snapshotting,
\* Preparing, Committing, never backwards; a pass that returns early makes
\* none, one that runs to its end with parts collected goes through all
\* three, and one whose prepare call throws never commits.  The scheduled
\* callback starts its pass with a frame pending; a synchronous flush starts
\* one with or without a pending frame.  A frame becomes pending only
\* through a _scheduleRender that calls the host.
C11_PhasesInOrder ==
  /\ last.passes > 0 =>
       /\ PhasesInOrder
       /\ Rendered => last.log[1] = <<"viewport", ViewLinesId>>
       /\ ~Rendered => last.log = <<>>
       /\ (Complete /\ last.collected # <<>>) =>
            PhasesSeen = DOMAIN PhaseNames
       /\ last.thrown[1] = "prepareRender" => 3 \notin PhasesSeen
  /\ last.op = "frame" => last.rafBefore # Null
  /\ (last.rafBefore = Null /\ raf # Null) =>
       last.hostCalls = 1 /\ reqs >= 1

\* a synchronous flush with no frame pending ran a whole pass
C11_Witness ==
  /\ last.op = "flush"
  /\ last.rafBefore = Null
  /\ Complete
  /\ Len(last.collected) >= 2
  /\ PhasesSeen = DOMAIN PhaseNames
  /\ raf = Null

\* ----------------------------------------------------------------- C12
\* C12 as stated: from the snapshot to the last commit of a pass no other
\* scheduler operation takes effect: no render request, no callback, no
\* other flush, no dispose.
C12_NothingInsidePass ==
  Rendered =>
    /\ last.passes = 1
    /\ last.cbCalls = 0
    /\ last.hostCalls = 0
    /\ reqs = 0
    /\ viewParts = last.partsBefore

\* C12, amended: a pass is one synchronous step in which no other flush
\* starts, no scheduled callback fires and the parts are not torn down; the
\* one scheduler operation that can take effect inside it is the render
\* request of a scroll event raised while the view lines render, made at
\* most once, which schedules a frame exactly when none is pending.
C12_OnlyRequestInsidePass ==
  Rendered =>
    /\ last.passes = 1
    /\ viewParts = last.partsBefore
    /\ last.op = "flush" => last.queueBefore \subseteq Live
    /\ last.cbCalls <= 1
    /\ last.hostCalls <= last.cbCalls
    /\ reqs = last.cbCalls
    /\ last.cbCalls = 1 =>
         \E i \in 1..Len(last.log) :
           last.log[i] = <<"renderText", ViewLinesId>>
    /\ last.hostCalls = 1 =>
         raf # Null /\ (last.op = "frame" \/ last.rafBefore = Null)
    /\ (last.cbCalls = 1 /\ last.hostCalls = 0) =>
         raf = last.rafBefore /\ raf # Null

\* the pass of a scheduled callback in which a scroll event requested the
\* next frame
C12_Witness ==
  /\ last.op = "frame"
  /\ Complete
  /\ last.cbCalls = 1
  /\ last.hostCalls = 1
  /\ raf # Null
  /\ Len(last.collected) >= 2

\* ----------------------------------------------------------------- C13
\* C13: dispose() disposes the handle of a pending frame and resets
\* _renderAnimationFrame to null, so no callback of the view is left
\* outstanding; when the host comes to the cancelled callback it does not
\* run it, and a callback that does fire is the live one of a frame
\* requested afterwards.
C13_DisposeCancelsFrame ==
  /\ last.op = "dispose" =>
       /\ raf = Null
       /\ Live = {}
       /\ last.rafBefore # Null => last.rafBefore \in canceled
  /\ last.op = "frameSkipped" => last.passes = 0 /\ last.log = <<>>
  /\ last.op = "frame" => last.queueBefore = {last.rafBefore}

\* the host reached the callback of the frame that dispose() cancelled
C13_Witness ==
  /\ last.op = "frameSkipped"
  /\ disposed
  /\ last.passes = 0
  /\ raf = Null
  /\ queue = {}

\* ----------------------------------------------------------------- C14
\* the host comes to a callback that was cancelled and drops it
DoFrameSkipped ==
  \E h \in canceled :
    \E t \in {RunFrame(St, h, NoPassInput)} : Apply("frameSkipped", St, t)

\* a step in which the host runs the live callback: a DoFrame step for a
\* handle that was not cancelled
FrameRuns == last'.op = "frame"

\* the host eventually gets to every callback it holds: weak fairness of
\* dropping a cancelled callback and of running the live one, the latter
\* written out as WF_vars(A) == []<>~ENABLED <<A>>_vars \/ []<><<A>>_vars
\* with the enabling condition, that a live callback is held
FrameFairness ==
  /\ WF_vars(DoFrameSkipped)
  /\ []<>(Live = {}) \/ []<><<FrameRuns>>_vars

FairSpec == Spec /\ FrameFairness

\* a render request is waiting: made on a view that is not disposed, by a
\* step that ran no pass, and not flushed since
RequestWaiting == reqs >= 1 /\ ~disposed /\ last.passes = 0

\* the latest step executed a flush, or it was the dispose() that cancels
\* the pending frame
FlushedOrDisposed == last.passes > 0 \/ last.op = "dispose"

\* C14: whenever a render request is waiting on a view that is not
\* disposed, a flush executes later on, unless the view is disposed first
\* (which cancels the frame); the host is assumed to run every callback it
\* holds.
C14_RequestServed == RequestWaiting ~> FlushedOrDisposed

\* the scheduled callback served two coalesced requests
C14_Witness ==
  /\ last.op = "frame"
  /\ last.reqsBefore >= 2
  /\ last.passes = 1
  /\ ~disposed
  /\ reqs = 0
  /\ raf = Null

\* ----------------------------------------------------------------- C15
\* C15: a pass that gets past its early returns takes the viewport data
\* exactly once (a pass that returns early takes none), and every call of
\* the pass that is handed viewport data (onBeforeRender, renderText, each
\* prepareRender and each render) is handed that one, as it was taken, also
\* when the layout scrolls during the pass.
C15_OneSnapshotPerPass ==
  last.passes > 0 =>
    /\ last.snapshots = IF last.rendered THEN 1 ELSE 0
    /\ last.snapsUsed \subseteq {last.snapshot}
    /\ (PartsOf("prepareRender") # <<>> \/ PartsOf("render") # <<>>) =>
         last.snapsUsed = {last.snapshot}

\* a whole pass during which the layout scrolled away from the snapshot
C15_Witness ==
  /\ Complete
  /\ last.layout # last.snapshot
  /\ Len(PartsOf("prepareRender")) >= 2
  /\ Len(PartsOf("render")) >= 2
  /\ last.snapsUsed = {last.snapshot}

\* ----------------------------------------------------------------- C16
\* C16: the view parts are the ones the constructor registered, in
\* registration order, until dispose() empties the collection; no other
\* step (a render request, a view event, a scheduled callback, a
\* synchronous flush with its whole pass, attaching or detaching the view)
\* changes its members or their order.
C16_PartsChangeOnlyAtTeardown ==
  /\ ~disposed => viewParts = [i \in 1..NumParts |-> i]
  /\ disposed => viewParts = <<>>
  /\ last.op \notin {"init", "dispose"} => viewParts = last.partsBefore
  /\ last.op = "dispose" =>
       last.partsBefore = [i \in 1..NumParts |-> i] /\ viewParts = <<>>

\* a whole pass over several parts left the collection as it was
C16_Witness ==
  /\ Complete
  /\ Len(last.collected) >= 2
  /\ Len(viewParts) = NumParts
  /\ viewParts = last.partsBefore

\* ----------------------------------------------------------------- C19
\* C19: a view event dispatched through _renderOnce invokes the callback
\* exactly once and then requests a render, also when the callback throws:
\* the error goes to the sink once and does not leave _renderOnce.  When
\* _renderOnce has returned a frame is pending: the one that was pending
\* before, or one scheduled by this request.  The same holds for the event
\* a pass raises while the view lines render.
C19_EventRequestsRender ==
  /\ last.op = "renderOnce" =>
       /\ last.cbCalls = 1
       /\ reqs = last.reqsBefore + 1
       /\ ~last.escaped
       /\ raf # Null
       /\ Live = {raf}
       /\ last.rafBefore # Null => raf = last.rafBefore /\ last.hostCalls = 0
       /\ last.rafBefore = Null => last.hostCalls = 1
       /\ last.sinkCalls = IF last.thrown = NoFault THEN 0 ELSE 1
       /\ last.thrown # NoFault => sink = "callback"
  /\ (last.passes > 0 /\ last.cbCalls = 1) => raf # Null /\ Live = {raf}

\* the callback threw with no frame pending: the error reached the sink and
\* the frame was scheduled all the same
C19_Witness ==
  /\ last.op = "renderOnce"
  /\ last.thrown = <<"callback", ViewLinesId>>
  /\ sink = "callback"
  /\ last.rafBefore = Null
  /\ raf # Null
  /\ last.hostCalls = 1

\* ----------------------------------------------------------------- C20
\* C20: when the view lines rendered in a pass, the parts the prepare and
\* commit loops go over are the registered parts dirty after that
\* rendering: the ones dirty when the pass started and the ones a scroll
\* event dirtied while the view lines rendered.  In a pass that runs to its
\* end each of them is prepared and committed, and is clean afterwards.
C20_DirtiedDuringViewLines ==
  (Rendered /\ PosOf("onDidRender", ViewLinesId) > 0) =>
    /\ Range(last.collected) =
         (last.dirty0 \cup last.evDirtied) \cap Range(last.partsBefore)
    /\ Complete =>
         /\ last.evDirtied \subseteq Range(PartsOf("prepareRender"))
         /\ last.evDirtied \subseteq Range(PartsOf("render"))
         /\ \A p \in last.evDirtied : ~shouldRender[p]

\* a scroll event dirtied two clean parts and the pass rendered both
C20_Witness ==
  /\ Complete
  /\ Cardinality(last.evDirtied) >= 2
  /\ last.evDirtied \cap last.dirty0 = {}
  /\ last.evDirtied \subseteq Range(PartsOf("render"))
  /\ \A p \in last.evDirtied : ~shouldRender[p]

\* ----------------------------------------------------------------- C17
\* C17: after any sequence of registrations the registered language ids are
\* the ids registered so far, each with one number; the id registered
\* first has number 1, the next new one 2, and so on without gaps
\* (_languageIds lists them in that order and _nextLanguageId is the next
\* free number), so distinct ids have distinct numbers; registering a known
\* id again allocates nothing and leaves every number as it was.
C17_UniqueLanguageNumbers ==
  LET seen == regHist.firstSeen
  IN /\ DOMAIN registry.languages = Range(seen)
     /\ \A i \in 1..Len(seen) :
          registry.languages[seen[i]].identifier =
            [language |-> seen[i], id |-> i]
     /\ \A x, y \in DOMAIN registry.languages :
          x # y => registry.languages[x].identifier.id #
                   registry.languages[y].identifier.id
     /\ registry.languageIds = seen
     /\ registry.nextLanguageId = Len(seen) + 1
     /\ \A x \in DOMAIN regHist.numbersBefore :
          /\ x \in DOMAIN registry.languages
          /\ registry.languages[x].identifier.id = regHist.numbersBefore[x]

\* two ids are registered, and the latest batch registered the first of
\* them again after the second
C17_Witness ==
  /\ Len(regHist.firstSeen) = 2
  /\ regHist.calls = 3
  /\ Len(regHist.desc) = 1
  /\ regHist.desc[1].id = regHist.firstSeen[1]
  /\ registry.nextLanguageId = 3
  /\ registry.languages[regHist.firstSeen[1]].identifier.id = 1

\* ----------------------------------------------------------------- C18
\* two marker data values agree on the eight properties of the key, an
\* absent source or code counting as the empty string
SameText(f, g) ==
  (IF f.present THEN f.value ELSE <<>>) = (IF g.present THEN g.value ELSE <<>>)

Agree(x, y) ==
  /\ SameText(x.source, y.source)
  /\ SameText(x.code, y.code)
  /\ x.severity = y.severity
  /\ x.message = y.message
  /\ x.range = y.range

\* C18 as stated: makeKey gives two marker data values the same key if and
\* only if they agree on source, code, severity, message and the four
\* positions, also when a property contains the separator character.
C18_CanonicalKey ==
  markers.done => ((markers.keyA = markers.keyB) <=> Agree(markers.a, markers.b))

\* ----------------------------------------------------------------- C21
\* the strings isRegisteredMode is asked about: the language ids, the mime
\* types of the descriptors, the default mime types, and names that are
\* neither
QueryStrings ==
  LangIds \cup {"text/m", "A", "", NullValue}
          \cup {DefaultMime(id) : id \in LangIds}

\* the mime types accumulated for the resolved languages
AccumulatedMimes ==
  UNION {MimeKeys(registry.languages[id]) : id \in DOMAIN registry.languages}

\* C21: after any sequence of _registerLanguages calls isRegisteredMode(x)
\* is true exactly when x is the id of a registered language or a mime type
\* accumulated for one; the three fast path maps have exactly the keys the
\* resolved languages give them (mime types, names, lower-cased aliases),
\* each mapped to the identifier of a language that has the key.
C21_RegisteredModeAgrees ==
  /\ \A x \in QueryStrings :
       IsRegisteredMode(registry, x) <=>
         (x \in DOMAIN registry.languages \/ x \in AccumulatedMimes)
  /\ DOMAIN registry.mimeTypesMap = AccumulatedMimes
  /\ DOMAIN registry.nameMap =
       UNION {NameKeys(registry.languages[id]) :
                id \in DOMAIN registry.languages}
  /\ DOMAIN registry.lowercaseNameMap =
       UNION {AliasKeys(registry.languages[id]) :
                id \in DOMAIN registry.languages}
  /\ \A m \in DOMAIN registry.mimeTypesMap :
       /\ registry.mimeTypesMap[m].language \in DOMAIN registry.languages
       /\ m \in MimeKeys(registry.languages[registry.mimeTypesMap[m].language])
       /\ registry.mimeTypesMap[m] =
            registry.languages[registry.mimeTypesMap[m].language].identifier

\* two languages were registered with the same mime type, the map holds the
\* later one; a third id and its default mime type are not registered
C21_Witness ==
  /\ Len(regHist.firstSeen) = 2
  /\ \A id \in DOMAIN registry.languages :
       "text/m" \in MimeKeys(registry.languages[id])
  /\ IsRegisteredMode(registry, "text/m")
  /\ registry.mimeTypesMap["text/m"].id = 2
  /\ \E id \in LangIds :
       ~IsRegisteredMode(registry, id) /\
       ~IsRegisteredMode(registry, DefaultMime(id))

\* ----------------------------------------------------------------- C22
\* the name a language has after one registration, by the rule of the
\* claim ("claimed": a non-empty aliases array gives its first alias) or by
\* the amended rule (an empty first alias gives the language id); prev is
\* the name before, NullValue for none
NameRule(kind, prev, lang) ==
  IF lang.aliases.isArray /\ Len(lang.aliases.items) > 0
    THEN IF kind = "claimed" \/ ~Falsy(lang.aliases.items[1])
           THEN lang.aliases.items[1] ELSE lang.id
  ELSE IF lang.aliases.isArray THEN prev
  ELSE IF prev = NullValue THEN lang.id
  ELSE prev

\* the rule applied to the registrations of id in the latest batch
RECURSIVE NameAfter(_, _, _, _)
NameAfter(kind, id, prev, i) ==
  IF i > Len(regHist.desc) THEN prev
  ELSE NameAfter(kind, id,
                 IF regHist.desc[i].id = id
                   THEN NameRule(kind, prev, regHist.desc[i]) ELSE prev,
                 i + 1)

NamesFollow(kind) ==
  \A id \in DOMAIN registry.languages :
    registry.languages[id].name =
      NameAfter(kind, id,
                IF id \in DOMAIN regHist.namesBefore
                  THEN regHist.namesBefore[id] ELSE NullValue,
                1)

AbortedInLoops ==
  Rendered /\ last.thrown[1] \in {"prepareRender", "render"}

\* the parts the pass committed: render() returned and onDidRender() ran
Committed == Range(PartsOf("onDidRender")) \ {ViewLinesId}

\* position in the collected parts of the part whose call threw
ThrownAt ==
  CHOOSE i \in 1..Len(last.collected) : last.collected[i] = last.thrown[2]

\* C23: after a pass aborted by a part's prepareRender or render, the part
\* whose call threw and every collected part after it are still dirty and
\* the next pass collects them again; the parts committed before the
\* failure are clean.  A failing render leaves exactly the parts before it
\* committed, a failing prepareRender leaves none.
C23_AbortKeepsPartsDirty ==
  AbortedInLoops =>
    /\ \E i \in 1..Len(last.collected) : last.collected[i] = last.thrown[2]
    /\ \A i \in ThrownAt..Len(last.collected) :
         /\ shouldRender[last.collected[i]]
         /\ \E j \in 1..Len(GetViewPartsToRender(St)) :
              GetViewPartsToRender(St)[j] = last.collected[i]
    /\ \A p \in Committed : ~shouldRender[p]
    /\ Committed =
         IF last.thrown[1] = "render"
           THEN {last.collected[i] : i \in 1..(ThrownAt - 1)}
           ELSE {}

\* the render of the second of three parts threw: the first is committed
\* and clean, the second and the third are dirty
C23_Witness ==
  /\ AbortedInLoops
  /\ last.thrown[1] = "render"
  /\ Len(last.collected) = 3
  /\ ThrownAt = 2
  /\ Committed = {last.collected[1]}
  /\ ~shouldRender[last.collected[1]]
  /\ shouldRender[last.collected[2]]
  /\ shouldRender[last.collected[3]]

\* ----------------------------------------------------------------- C24
\* C24: once dispose() has run, no step calls viewLines or a part
\* (onBeforeRender, renderText, prepareRender, render, onDidRender), no step
\* calls the host's frame primitive, and no frame callback of the view is
\* outstanding.
C24_NoRenderWorkAfterDispose ==
  disposed =>
    /\ raf = Null
    /\ Live = {}
    /\ last.op # "dispose" => last.log = <<>> /\ last.hostCalls = 0

\* ----------------------------------------------------------------- C25
\* the latest step was a scheduled flush during which a render request was
\* made (the scroll event the view lines raise while they render)
RequestDuringFrame == last.op = "frame" /\ last.cbCalls = 1

\* a pending frame stays pending, with the same handle, through every step
\* that is neither the host running a callback nor dispose()
PendingFrameKept ==
  (raf # Null /\ last'.op \notin {"frame", "dispose"}) =>
    raf' = raf /\ Live' = Live

\* C25: a render request made while a scheduled flush runs finds the handle
\* cleared, so it calls the host primitive once and a live callback is
\* pending when the flush returns; every callback the host runs executes a
\* flush; and the pending callback stays pending until the host runs it or
\* dispose() cancels it.  So a further flush follows the current one.
C25_RequestDuringFlushKept ==
  /\ [](RequestDuringFrame =>
          /\ last.hostCalls = 1
          /\ raf # Null
          /\ Live = {raf}
          /\ reqs = 1)
  /\ [](last.op = "frame" => last.passes = 1)
  /\ [][PendingFrameKept]_vars

\* a scheduled flush served one request and, while its view lines rendered,
\* a scroll event dirtied a part and requested the next frame
C25_Witness ==
  /\ RequestDuringFrame
  /\ last.reqsBefore = 1
  /\ last.evDirtied # {}
  /\ last.hostCalls = 1
  /\ reqs = 1
  /\ raf # Null
  /\ Live = {raf}

\* ----------------------------------------------------------------- C26
\* the latest step was a geometry query: it read from viewLines
Queried == last.reads > 0

\* the pass of the latest step aborted before the view lines had rendered
AbortedBeforeLines ==
  last.thrown[1] \in {"onBeforeRender", "renderText"}

\* C26 as stated: a geometry query runs a flush before it reads from
\* viewLines, and on an attached view viewLines are not dirty when it reads.
C26_QueryReadsCleanLines ==
  (Queried /\ last.wasInDOM) => last.passes = 1 /\ ~last.readDirty

\* C26, amended: a geometry query runs exactly one flush and then reads
\* once.  viewLines are dirty at the read exactly when they were dirty
\* before the query and the flush did not render them: the view is not
\* attached, or the pass aborted on an exception of the content widgets'
\* onBeforeRender or of renderText, which _renderNow swallows.
C26_QueryReadsAfterFlush ==
  Queried =>
    /\ last.reads = 1
    /\ last.passes = 1
    /\ last.readDirty = vlShouldRender
    /\ last.readDirty <=>
         (last.vlBefore /\ (~last.wasInDOM \/ AbortedBeforeLines))

\* a query on an attached view with dirty view lines: the flush rendered
\* them and the read found them clean
C26_Witness ==
  /\ Queried
  /\ last.wasInDOM
  /\ last.vlBefore
  /\ Complete
  /\ PosOf("renderText", ViewLinesId) > 0
  /\ ~last.readDirty

\* ----------------------------------------------------------------- C27
\* viewLines' dirty flag when the pass of the latest step started: forced
\* by render(_, true), else as it was before the step
LinesDirtyAtStart == last.everything \/ last.vlBefore

\* the latest step ran a flush on a view that was not attached, or on one
\* where neither viewLines nor a registered part was dirty
FlushWithNothingToDo ==
  /\ last.passes > 0
  /\ \/ ~last.wasInDOM
     \/ ~LinesDirtyAtStart /\ last.dirty0 \cap Range(last.partsBefore) = {}

\* C27: a flush on a view that is not attached, or with neither viewLines
\* nor a part dirty, returns early: it takes no viewport data and does not
\* set the model viewport, it calls neither viewLines nor a part, it
\* reports no error and schedules nothing, and the dirty flags of viewLines
\* and of every part are what they were when the pass started.
C27_FlushNoOp ==
  FlushWithNothingToDo =>
    /\ ~last.rendered
    /\ last.snapshots = 0
    /\ last.log = <<>>
    /\ last.collected = <<>>
    /\ last.thrown = NoFault
    /\ last.sinkCalls = 0
    /\ last.hostCalls = 0
    /\ {p \in Parts : shouldRender[p]} = last.dirty0
    /\ vlShouldRender = LinesDirtyAtStart
    /\ forced = last.forced0

\* a flush on a view that is not attached, with the view lines and two
\* parts dirty: nothing was called and the flags are as they were
C27_Witness ==
  /\ FlushWithNothingToDo
  /\ last.op = "flush"
  /\ ~last.wasInDOM
  /\ ~last.everything
  /\ vlShouldRender
  /\ Cardinality(last.dirty0 \cap Range(last.partsBefore)) >= 2
  /\ last.log = <<>>
  /\ last.snapshots = 0

====
